---- MODULE Spec2Model ----
(***************************************************************************)
(* Model of Browser/keywords/cookie.py: the Cookie keyword adapter of the  *)
(* Browser library.  The adapter holds no cookie state of its own: the     *)
(* cookie collection lives in the remote browser context, and each keyword *)
(* opens a gRPC channel, issues a request and reshapes the response.       *)
(***************************************************************************)
EXTENDS Integers, Sequences, FiniteSets, TLC

VARIABLES
    jar,          \* the cookie collection of the remote browser context
    openHandles,  \* number of gRPC channel handles currently open
    last,         \* what the last keyword call did: arguments, exception, return value, logs
    cleared,      \* history: delete_all_cookies succeeded and no add_cookie succeeded since
    tz            \* UTC offset (seconds) of the local zone datetime.fromtimestamp uses

vars == <<jar, openHandles, last, cleared, tz>>

-----------------------------------------------------------------------------
(* Bounds and input sets                                                   *)

\* most cookies the remote context holds
MaxJar == 2

None == "None"

\* cookie names; they differ in case only, and the adapter does no case folding
Names == {"a", "A"}
QueryNames == Names
Values == {"1", "2"}

\* (url, domain, path) triples handed to add_cookie
UrlScopes == { [url |-> "http://example.com", domain |-> None, path |-> None] }
PairScopes == { [url |-> None, domain |-> "other.com", path |-> "/"] }
BadScopes ==
    { [url |-> None, domain |-> None, path |-> None],
      [url |-> None, domain |-> "other.com", path |-> None] }

CookieTypes == {"dictionary", "string"}

\* what the remote service does with one request
GetModes == {"ok", "unavailable", "garbled"}
CallModes == {"ok", "unavailable"}
GetCookiesLogs == {"", "cookies"}
\* the log text of a response: only a response that arrives carries one
LogsOf(mode) == IF mode = "unavailable" THEN {""} ELSE GetCookiesLogs

-----------------------------------------------------------------------------
(* Values                                                                  *)

NoError == [type |-> "none", details |-> ""]
RpcUnavailable == [type |-> "RpcError", details |-> "failed to connect to all addresses"]
RpcInvalidCookie ==
    [type |-> "RpcError", details |-> "Cookie should have a url or a domain/path pair"]
RpcInvalidExpires == [type |-> "RpcError", details |-> "expires: expected number"]
JSONDecodeError == [type |-> "JSONDecodeError", details |-> "Expecting value"]

NoValue == [kind |-> "none"]
NoExpires == [t |-> "absent"]

IsRaised(r) == r.raised.type # "none"

-----------------------------------------------------------------------------
(* JSON bodies of the request envelope                                     *)

json_dumps(obj) == [json |-> obj]

GarbledBody == [text |-> "<html>"]

json_loads(body) ==
    IF "json" \in DOMAIN body
    THEN [raised |-> NoError, value |-> body.json]
    ELSE [raised |-> JSONDecodeError, value |-> <<>>]

-----------------------------------------------------------------------------
(* Integers.  Python integers are unbounded; epoch seconds past the year   *)
(* 2038 do not fit the 32-bit integers of TLC, so an integer n is kept as  *)
(* the pair (d, s) with n = d * 86400 + s and 0 <= s < 86400.              *)

SecondsPerDay == 86400

WNorm(d, s) == [d |-> d + (s \div SecondsPerDay), s |-> s % SecondsPerDay]
WInt(n) == WNorm(0, n)
WAdd(w, k) == WNorm(w.d, w.s + k)
WNeg(w) == WNorm(0 - w.d, 0 - w.s)
WMul10Add(w, digit) == WNorm(w.d * 10, w.s * 10 + digit)

DigitChars == <<"0", "1", "2", "3", "4", "5", "6", "7", "8", "9">>
IsDigit(c) == \E i \in 1..10 : DigitChars[i] = c
DigitValue(c) == (CHOOSE i \in 1..10 : DigitChars[i] = c) - 1

RECURSIVE DigitsToInt(_, _)
DigitsToInt(chars, acc) ==
    IF chars = <<>> THEN acc
    ELSE DigitsToInt(Tail(chars),
                     IF Head(chars) = "_" THEN acc ELSE WMul10Add(acc, DigitValue(Head(chars))))

RECURSIVE Strip(_)
Strip(chars) ==
    IF chars = <<>> THEN <<>>
    ELSE IF Head(chars) = " " THEN Strip(Tail(chars))
    ELSE IF chars[Len(chars)] = " " THEN Strip(SubSeq(chars, 1, Len(chars) - 1))
    ELSE chars

\* the digit part of an integer literal: digits, single underscores between them
IsIntBody(chars) ==
    /\ chars # <<>>
    /\ \A i \in 1..Len(chars) : IsDigit(chars[i]) \/ chars[i] = "_"
    /\ chars[1] # "_" /\ chars[Len(chars)] # "_"
    /\ \A i \in 1..(Len(chars) - 1) : ~(chars[i] = "_" /\ chars[i + 1] = "_")

\* int(str): surrounding blanks, an optional sign, then the digits
int(chars) ==
    LET s == Strip(chars)
        signed == s # <<>> /\ Head(s) \in {"+", "-"}
        body == IF signed THEN Tail(s) ELSE s
        magnitude == DigitsToInt(body, WInt(0))
    IN IF IsIntBody(body)
       THEN [raised |-> NoError,
             value |-> IF signed /\ Head(s) = "-" THEN WNeg(magnitude) ELSE magnitude]
       ELSE [raised |-> [type |-> "ValueError", details |-> "invalid literal for int()"],
             value |-> WInt(0)]

-----------------------------------------------------------------------------
(* Calendar arithmetic of the datetime module (proleptic Gregorian).       *)

EpochOrdinal == 719163      \* date(1970, 1, 1).toordinal()
MaxOrdinal == 3652059       \* date(9999, 12, 31).toordinal()

DaysInMonth == <<31, 28, 31, 30, 31, 30, 31, 31, 30, 31, 30, 31>>
DaysBeforeMonth == <<0, 31, 59, 90, 120, 151, 181, 212, 243, 273, 304, 334>>

is_leap(year) == year % 4 = 0 /\ (year % 100 # 0 \/ year % 400 = 0)

days_before_year(year) ==
    LET y == year - 1 IN y * 365 + (y \div 4) - (y \div 100) + (y \div 400)

days_in_month(year, month) ==
    IF month = 2 /\ is_leap(year) THEN 29 ELSE DaysInMonth[month]

days_before_month(year, month) ==
    DaysBeforeMonth[month] + (IF month > 2 /\ is_leap(year) THEN 1 ELSE 0)

ymd2ord(year, month, day) ==
    days_before_year(year) + days_before_month(year, month) + day

ord2ymd(ordinal) ==
    LET n0 == ordinal - 1
        n400 == n0 \div 146097
        r400 == n0 % 146097
        n100 == r400 \div 36524
        r100 == r400 % 36524
        n4 == r100 \div 1461
        r4 == r100 % 1461
        n1 == r4 \div 365
        n == r4 % 365
        year == n400 * 400 + 1 + n100 * 100 + n4 * 4 + n1
        leapyear == n1 = 3 /\ (n4 # 24 \/ n100 = 3)
        guess == (n + 50) \div 32
        before == DaysBeforeMonth[guess] + (IF guess > 2 /\ leapyear THEN 1 ELSE 0)
        month == IF before > n THEN guess - 1 ELSE guess
        preceding ==
            IF before > n
            THEN before - (DaysInMonth[guess - 1] + (IF guess - 1 = 2 /\ leapyear THEN 1 ELSE 0))
            ELSE before
    IN IF n1 = 4 \/ n100 = 4
       THEN [year |-> year - 1, month |-> 12, day |-> 31]
       ELSE [year |-> year, month |-> month, day |-> n - preceding + 1]

\* datetime.fromtimestamp(t): the local calendar time of epoch second t
fromtimestamp(t, offset) ==
    LET local == WAdd(t, offset)
        ordinal == local.d + EpochOrdinal
        ymd == ord2ymd(ordinal)
    IN IF ordinal < 1 \/ ordinal > MaxOrdinal
       THEN [raised |-> [type |-> "ValueError", details |-> "year is out of range"],
             value |-> NoExpires]
       ELSE [raised |-> NoError,
             value |-> [t |-> "datetime", year |-> ymd.year, month |-> ymd.month,
                        day |-> ymd.day, hour |-> local.s \div 3600,
                        minute |-> (local.s % 3600) \div 60, second |-> local.s % 60]]

\* datetime.timestamp() of a naive local datetime: its epoch seconds
timestamp(dt, offset) ==
    WAdd([d |-> ymd2ord(dt.year, dt.month, dt.day) - EpochOrdinal,
          s |-> dt.hour * 3600 + dt.minute * 60 + dt.second], 0 - offset)

-----------------------------------------------------------------------------
(* robot.libraries.DateTime.convert_date(date, result_format="epoch") for  *)
(* timestamp strings: the digits of the string, 8 to 20 of them, read as   *)
(* YYYYMMDDhhmmss (missing digits are zeros) in local time.                *)

RECURSIVE OnlyDigits(_)
OnlyDigits(chars) ==
    IF chars = <<>> THEN <<>>
    ELSE IF IsDigit(Head(chars)) THEN <<Head(chars)>> \o OnlyDigits(Tail(chars))
    ELSE OnlyDigits(Tail(chars))

RECURSIVE Ljust(_, _)
Ljust(chars, width) == IF Len(chars) >= width THEN chars ELSE Ljust(Append(chars, "0"), width)

Field(ts, from, to) == DigitsToInt(SubSeq(ts, from, to), WInt(0)).s

convert_date(chars, offset) ==
    LET digits == OnlyDigits(chars)
        ts == Ljust(digits, 20)
        year == Field(ts, 1, 4)
        month == Field(ts, 5, 6)
        day == Field(ts, 7, 8)
        hour == Field(ts, 9, 10)
        minute == Field(ts, 11, 12)
        second == Field(ts, 13, 14)
        invalid == [raised |-> [type |-> "ValueError", details |-> "Invalid timestamp"],
                    value |-> WInt(0)]
    IN IF Len(digits) < 8 \/ Len(digits) > 20 THEN invalid
       ELSE IF \/ year < 1 \/ month < 1 \/ month > 12 \/ day < 1
               \/ hour > 23 \/ minute > 59 \/ second > 59
            THEN invalid
       ELSE IF day > days_in_month(year, month) THEN invalid
       ELSE [raised |-> NoError,
             value |-> timestamp([year |-> year, month |-> month, day |-> day, hour |-> hour,
                                  minute |-> minute, second |-> second], offset)]

-----------------------------------------------------------------------------
(* The remote browser-control service.  A cookie is a JSON object: a       *)
(* function from the keys it carries to their values.  `remote` is the     *)
(* service as one request meets it: its cookie collection, whether it      *)
(* answers, and the log text it puts in the response.                      *)

RemoteOf(cookies, mode, log) == [jar |-> cookies, mode |-> mode, log |-> log]

NoResponse == [raised |-> NoError, log |-> "", body |-> GarbledBody]

Key(obj, k) == IF k \in DOMAIN obj THEN obj[k] ELSE None

SameCookie(c, p) ==
    /\ c["name"] = p["name"]
    /\ Key(c, "url") = Key(p, "url")
    /\ Key(c, "domain") = Key(p, "domain")
    /\ Key(c, "path") = Key(p, "path")

\* GetCookies() -> JSON
RemoteGetCookies(remote) ==
    CASE remote.mode = "unavailable" ->
            [raised |-> RpcUnavailable, log |-> "", body |-> GarbledBody]
      [] remote.mode = "garbled" ->
            [raised |-> NoError, log |-> remote.log, body |-> GarbledBody]
      [] OTHER ->
            [raised |-> NoError, log |-> remote.log, body |-> json_dumps(remote.jar)]

\* AddCookie(JSON) -> status+log: a new cookie, or the replacement of the one
\* with the same name and scope; a cookie needs a url or a domain/path pair
RemoteAddCookie(remote, body) ==
    LET p == json_loads(body).value
        scoped == "url" \in DOMAIN p \/ ("domain" \in DOMAIN p /\ "path" \in DOMAIN p)
        numeric == "expires" \notin DOMAIN p \/ p["expires"].t = "int"
        old == {i \in 1..Len(remote.jar) : SameCookie(remote.jar[i], p)}
        stored == IF old = {} THEN Append(remote.jar, p)
                  ELSE [i \in 1..Len(remote.jar) |->
                            IF i \in old THEN p ELSE remote.jar[i]]
    IN IF remote.mode = "unavailable"
       THEN [raised |-> RpcUnavailable, log |-> "", jar |-> remote.jar]
       ELSE IF ~scoped THEN [raised |-> RpcInvalidCookie, log |-> "", jar |-> remote.jar]
       ELSE IF ~numeric THEN [raised |-> RpcInvalidExpires, log |-> "", jar |-> remote.jar]
       ELSE [raised |-> NoError, log |-> "Cookie " \o p["name"] \o " added", jar |-> stored]

\* DeleteAllCookies() -> status+log
RemoteDeleteAllCookies(remote) ==
    IF remote.mode = "unavailable"
    THEN [raised |-> RpcUnavailable, log |-> "", jar |-> remote.jar]
    ELSE [raised |-> NoError, log |-> "All cookies deleted", jar |-> <<>>]

-----------------------------------------------------------------------------
(* The scoped channel handle: `with self.playwright.grpc_channel() as stub`*)

NoChannel(open) == [open |-> open, events |-> <<>>, sent |-> <<>>]

channel_enter(ch) == [ch EXCEPT !.open = @ + 1, !.events = Append(@, "open")]

\* leaving the with block, normally or by an exception, closes the channel
channel_exit(ch) == [ch EXCEPT !.open = @ - 1, !.events = Append(@, "close")]

stub_call(ch, rpc, body) ==
    [ch EXCEPT !.events = Append(@, rpc), !.sent = Append(@, body)]

EmptyRequest == [empty |-> TRUE]

-----------------------------------------------------------------------------
(* The keywords of class Cookie                                            *)

Info(msg) == [level |-> "info", msg |-> msg]

cookie_as_string(cookie) == cookie["name"] \o "=" \o cookie["value"]

RECURSIVE join(_, _)
join(sep, pairs) ==
    IF pairs = <<>> THEN ""
    ELSE IF Len(pairs) = 1 THEN pairs[1]
    ELSE pairs[1] \o sep \o join(sep, Tail(pairs))

format_cookies_as_string(cookies) ==
    join("; ", [i \in 1..Len(cookies) |-> cookie_as_string(cookies[i])])

\* a DotDict with the cookie's keys; "expires" becomes a datetime
cookie_as_dot_dict(cookie, offset) ==
    LET conv == IF "expires" \in DOMAIN cookie
                THEN fromtimestamp(cookie["expires"], offset)
                ELSE [raised |-> NoError, value |-> NoExpires]
    IN [raised |-> conv.raised,
        value |-> [key \in DOMAIN cookie |->
                      IF key = "expires" THEN conv.value ELSE cookie[key]]]

format_cookies_as_dot_dict(cookies, offset) ==
    LET dicts == [i \in 1..Len(cookies) |-> cookie_as_dot_dict(cookies[i], offset)]
        bad == {i \in 1..Len(cookies) : IsRaised(dicts[i])}
        first == CHOOSE i \in bad : \A j \in bad : i <= j
    IN IF bad # {}
       THEN [raised |-> dicts[first].raised, value |-> NoValue]
       ELSE [raised |-> NoError,
             value |-> [kind |-> "list", items |-> [i \in 1..Len(cookies) |-> dicts[i].value]]]

\* variant: the channel is closed on the normal path only
get_cookies_request_leaks(ch, remote) ==
    LET inside == stub_call(channel_enter(ch), "GetCookies", EmptyRequest)
        response == RemoteGetCookies(remote)
        parsed == json_loads(response.body)
    IN IF IsRaised(response)
       THEN [raised |-> response.raised, response |-> NoResponse, cookies |-> <<>>,
             ch |-> inside]
       ELSE IF IsRaised(parsed)
       THEN [raised |-> parsed.raised, response |-> response, cookies |-> <<>>,
             ch |-> inside]
       ELSE [raised |-> NoError, response |-> response, cookies |-> parsed.value,
             ch |-> channel_exit(inside)]

get_cookies_request(ch, remote) ==
    LET inside == stub_call(channel_enter(ch), "GetCookies", EmptyRequest)
        response == RemoteGetCookies(remote)
        parsed == json_loads(response.body)
    IN IF IsRaised(response)
       THEN [raised |-> response.raised, response |-> NoResponse, cookies |-> <<>>,
             ch |-> channel_exit(inside)]
       ELSE IF IsRaised(parsed)
       THEN [raised |-> parsed.raised, response |-> response, cookies |-> <<>>,
             ch |-> channel_exit(inside)]
       ELSE [raised |-> NoError, response |-> response, cookies |-> parsed.value,
             ch |-> channel_exit(inside)]

get_cookies(ch, return_type, remote, offset) ==
    LET got == get_cookies_request(ch, remote)
        found == <<Info("Found cookies: " \o got.response.log)>>
        dicts == format_cookies_as_dot_dict(got.cookies, offset)
        base == [raised |-> NoError, value |-> NoValue, logs |-> <<>>, ch |-> got.ch,
                 response |-> got.response, jar |-> remote.jar]
    IN IF IsRaised(got) THEN [base EXCEPT !.raised = got.raised]
       ELSE IF got.response.log = ""
       THEN [base EXCEPT !.value = [kind |-> "list", items |-> <<>>],
                         !.logs = <<Info("No cookies found.")>>]
       ELSE IF return_type = "dictionary"
       THEN [base EXCEPT !.raised = dicts.raised, !.value = dicts.value, !.logs = found]
       ELSE [base EXCEPT !.value = [kind |-> "str",
                                    text |-> format_cookies_as_string(got.cookies)],
                         !.logs = found]

NotFound(cookie) ==
    [type |-> "ValueError", details |-> "Cookie with name " \o cookie \o " is not found."]

Lower(name) == IF name = "A" THEN "a" ELSE name

RECURSIVE scan_casefold(_, _, _)
scan_casefold(cookies, cookie, i) ==
    IF i > Len(cookies) THEN 0
    ELSE IF Lower(cookies[i]["name"]) = Lower(cookie) THEN i
    ELSE scan_casefold(cookies, cookie, i + 1)

\* variant: names are compared without regard to case
get_cookie_casefold(ch, cookie, return_type, remote, offset) ==
    LET got == get_cookies_request(ch, remote)
        first == scan_casefold(got.cookies, cookie, 1)
        dict == cookie_as_dot_dict(got.cookies[first], offset)
        base == [raised |-> NoError, value |-> NoValue, logs |-> <<>>, ch |-> got.ch,
                 response |-> got.response, jar |-> remote.jar]
    IN IF IsRaised(got) THEN [base EXCEPT !.raised = got.raised]
       ELSE IF first = 0 THEN [base EXCEPT !.raised = NotFound(cookie)]
       ELSE IF return_type = "dictionary"
       THEN [base EXCEPT !.raised = dict.raised,
                         !.value = IF IsRaised(dict) THEN NoValue
                                   ELSE [kind |-> "dict", rec |-> dict.value]]
       ELSE [base EXCEPT !.value = [kind |-> "str",
                                    text |-> cookie_as_string(got.cookies[first])]]

\* the loop `for cookie_dict in cookies`: the index it stops at, 0 when it runs out
RECURSIVE scan(_, _, _)
scan(cookies, cookie, i) ==
    IF i > Len(cookies) THEN 0
    ELSE IF cookies[i]["name"] = cookie THEN i
    ELSE scan(cookies, cookie, i + 1)

get_cookie(ch, cookie, return_type, remote, offset) ==
    LET got == get_cookies_request(ch, remote)
        first == scan(got.cookies, cookie, 1)
        dict == cookie_as_dot_dict(got.cookies[first], offset)
        base == [raised |-> NoError, value |-> NoValue, logs |-> <<>>, ch |-> got.ch,
                 response |-> got.response, jar |-> remote.jar]
    IN IF IsRaised(got) THEN [base EXCEPT !.raised = got.raised]
       ELSE IF first = 0 THEN [base EXCEPT !.raised = NotFound(cookie)]
       ELSE IF return_type = "dictionary"
       THEN [base EXCEPT !.raised = dict.raised,
                         !.value = IF IsRaised(dict) THEN NoValue
                                   ELSE [kind |-> "dict", rec |-> dict.value]]
       ELSE [base EXCEPT !.value = [kind |-> "str",
                                    text |-> cookie_as_string(got.cookies[first])]]

\* locals_to_params(locals()): the arguments that are not None
locals_to_params(args) ==
    LET given == {k \in DOMAIN args :
                     IF k = "expires" THEN args[k].t # "absent" ELSE args[k] # None}
    IN [k \in given |-> args[k]]

\* _expiry: int(expiry), and convert_date when that raises ValueError
expiry(chars, offset) ==
    LET n == int(chars)
    IN IF ~IsRaised(n) THEN n ELSE convert_date(chars, offset)

IntExpires(w) == [t |-> "int", d |-> w.d, s |-> w.s]
StrExpires(chars) == [t |-> "str", chars |-> chars]

\* variant: a cookie without a url or a domain/path pair is refused locally
add_cookie_prevalidates(ch, args, remote, offset) ==
    LET params == locals_to_params(args)
        truthy == args.expires.t = "str" /\ args.expires.chars # <<>>
        exp == expiry(args.expires.chars, offset)
        final == IF truthy THEN [params EXCEPT !["expires"] = IntExpires(exp.value)]
                 ELSE params
        cookie_json == json_dumps(final)
        inside == stub_call(channel_enter(ch), "AddCookie", cookie_json)
        response == RemoteAddCookie(remote, cookie_json)
        debug == [level |-> "debug", msg |-> "Adding cookie: " \o final["name"]]
        base == [raised |-> NoError, value |-> NoValue, logs |-> <<>>, ch |-> ch,
                 response |-> NoResponse, jar |-> remote.jar]
    IN IF args.url = None /\ (args.domain = None \/ args.path = None)
       THEN [base EXCEPT !.raised = [type |-> "ValueError", details |-> "url or domain/path"]]
       ELSE IF truthy /\ IsRaised(exp) THEN [base EXCEPT !.raised = exp.raised]
       ELSE IF IsRaised(response)
       THEN [base EXCEPT !.raised = response.raised, !.logs = <<debug>>,
                         !.ch = channel_exit(inside)]
       ELSE [base EXCEPT !.logs = <<debug, Info(response.log)>>,
                         !.ch = channel_exit(inside), !.jar = response.jar]

add_cookie(ch, args, remote, offset) ==
    LET params == locals_to_params(args)
        truthy == args.expires.t = "str" /\ args.expires.chars # <<>>
        exp == expiry(args.expires.chars, offset)
        final == IF truthy THEN [params EXCEPT !["expires"] = IntExpires(exp.value)]
                 ELSE params
        cookie_json == json_dumps(final)
        inside == stub_call(channel_enter(ch), "AddCookie", cookie_json)
        response == RemoteAddCookie(remote, cookie_json)
        debug == [level |-> "debug", msg |-> "Adding cookie: " \o final["name"]]
        base == [raised |-> NoError, value |-> NoValue, logs |-> <<>>, ch |-> ch,
                 response |-> NoResponse, jar |-> remote.jar]
    IN IF truthy /\ IsRaised(exp) THEN [base EXCEPT !.raised = exp.raised]
       ELSE IF IsRaised(response)
       THEN [base EXCEPT !.raised = response.raised, !.logs = <<debug>>,
                         !.ch = channel_exit(inside)]
       ELSE [base EXCEPT !.logs = <<debug, Info(response.log)>>,
                         !.ch = channel_exit(inside), !.jar = response.jar]

delete_all_cookies(ch, remote) ==
    LET inside == stub_call(channel_enter(ch), "DeleteAllCookies", EmptyRequest)
        response == RemoteDeleteAllCookies(remote)
        base == [raised |-> NoError, value |-> NoValue, logs |-> <<>>,
                 ch |-> channel_exit(inside), response |-> NoResponse, jar |-> response.jar]
    IN IF IsRaised(response) THEN [base EXCEPT !.raised = response.raised]
       ELSE [base EXCEPT !.logs = <<Info(response.log)>>]

\* variant: the keyword logs its messages and sends nothing
eat_all_cookies_only_logs(ch, remote) ==
    [raised |-> NoError, value |-> NoValue,
     logs |-> <<[level |-> "info", msg |-> "<iframe>"],
                [level |-> "warn", msg |-> "Cookie monster ate all cookies!!"]>>,
     ch |-> ch, response |-> NoResponse, jar |-> remote.jar]

eat_all_cookies(ch, remote) ==
    LET deleted == delete_all_cookies(ch, remote)
    IN IF IsRaised(deleted) THEN deleted
       ELSE [deleted EXCEPT !.logs = @ \o <<[level |-> "info", msg |-> "<iframe>"],
                                            [level |-> "warn",
                                             msg |-> "Cookie monster ate all cookies!!"]>>]

-----------------------------------------------------------------------------
(* Inputs of the two workloads                                             *)

Scopes == UrlScopes \cup PairScopes \cup BadScopes

ExpiryNames == {"a"}
ExpiryValues == {"1"}
ExpiryScopes ==
    { [url |-> "http://example.com", domain |-> None, path |-> None],
      [url |-> None, domain |-> None, path |-> None] }
TZOffsets == {0, 10800, -18000}

ExpiryStrings ==
    { <<>>,
      <<"0">>,
      <<"-", "1">>,
      <<" ", "4", "2">>,
      <<"1", "8", "2", "2", "1", "3", "7", "6", "9", "5">>,
      <<"2", "5", "3", "4", "0", "2", "3", "0", "0", "7", "9", "9">>,
      <<"1", "0", "0", "0", "0", "0", "0", "0", "0", "0", "0", "0", "0">>,
      <<"2", "0", "2", "7", "0", "9", "2", "8">>,
      <<"2", "0", "2", "7", "-", "0", "9", "-", "2", "8", " ", "1", "6", ":", "2", "1", ":", "3", "5">>,
      <<"s", "o", "o", "n">> }

ExpiryArgs == {NoExpires} \cup {StrExpires(c) : c \in ExpiryStrings}

\* the arguments of add_cookie; httpOnly, secure and sameSite, left at None here,
\* travel in the payload like url, domain and path
AddArgs(n, v, scope, e) ==
    [name |-> n, value |-> v, url |-> scope.url, domain |-> scope.domain,
     path |-> scope.path, expires |-> e]

-----------------------------------------------------------------------------
(* State machine: one action per keyword call                              *)

NoAdd == [some |-> FALSE, name |-> "", value |-> "", url |-> None, expires |-> NoExpires]

\* the add_cookie call that has just succeeded, if the last call is one
JustAdded ==
    IF last.kw = "add_cookie" /\ ~IsRaised(last)
    THEN [some |-> TRUE, name |-> last.args.name, value |-> last.args.value,
          url |-> last.args.url, expires |-> last.args.expires]
    ELSE NoAdd

\* the record of a call; `after` is the add_cookie a read immediately follows
Call(kw, args, mode, out) ==
    [kw |-> kw, args |-> args, mode |-> mode, raised |-> out.raised, value |-> out.value,
     logs |-> out.logs, events |-> out.ch.events, sent |-> out.ch.sent,
     response |-> out.response,
     after |-> IF kw \in {"get_cookie", "get_cookies"} THEN JustAdded ELSE NoAdd]

Init0 ==
    /\ jar = <<>>
    /\ openHandles = 0
    /\ last = [kw |-> "none", args |-> <<>>, mode |-> "ok", raised |-> NoError,
               value |-> NoValue, logs |-> <<>>, events |-> <<>>, sent |-> <<>>,
               response |-> NoResponse, after |-> NoAdd]
    /\ cleared = FALSE

Init == Init0 /\ tz = 0

InitExpiry == Init0 /\ tz \in TZOffsets

Finish(kw, args, mode, out) ==
    /\ last' = Call(kw, args, mode, out)
    /\ openHandles' = out.ch.open
    /\ jar' = out.jar
    /\ tz' = tz

GetCookies ==
    \E return_type \in CookieTypes, mode \in GetModes : \E log \in LogsOf(mode) :
        /\ Finish("get_cookies", [return_type |-> return_type], mode,
                  get_cookies(NoChannel(openHandles), return_type,
                              RemoteOf(jar, mode, log), tz))
        /\ cleared' = cleared

GetCookie ==
    \E cookie \in QueryNames, return_type \in CookieTypes, mode \in GetModes :
      \E log \in LogsOf(mode) :
        /\ Finish("get_cookie", [cookie |-> cookie, return_type |-> return_type], mode,
                  get_cookie(NoChannel(openHandles), cookie, return_type,
                             RemoteOf(jar, mode, log), tz))
        /\ cleared' = cleared

AddCookie(names, values, scopes, expiries) ==
    \E n \in names, v \in values, scope \in scopes, e \in expiries, mode \in CallModes :
        LET args == AddArgs(n, v, scope, e)
            out == add_cookie(NoChannel(openHandles), args, RemoteOf(jar, mode, ""), tz)
        IN /\ Len(out.jar) <= MaxJar
           /\ Finish("add_cookie", args, mode, out)
           /\ cleared' = IF IsRaised(out) THEN cleared ELSE FALSE

DeleteAllCookies ==
    \E mode \in CallModes :
        LET out == delete_all_cookies(NoChannel(openHandles), RemoteOf(jar, mode, ""))
        IN /\ Finish("delete_all_cookies", <<>>, mode, out)
              /\ cleared' = IF IsRaised(out) THEN cleared ELSE TRUE

EatAllCookies ==
    \E mode \in CallModes :
        LET out == eat_all_cookies(NoChannel(openHandles), RemoteOf(jar, mode, ""))
        IN /\ Finish("eat_all_cookies", <<>>, mode, out)
              /\ cleared' = IF IsRaised(out) THEN cleared ELSE TRUE

Next ==
    \/ GetCookies
    \/ GetCookie
    \/ AddCookie(Names, Values, Scopes, {NoExpires})
    \/ DeleteAllCookies
    \/ EatAllCookies

NextExpiry ==
    \/ GetCookies
    \/ GetCookie
    \/ AddCookie(ExpiryNames, ExpiryValues, ExpiryScopes, ExpiryArgs)
    \/ DeleteAllCookies
    \/ EatAllCookies

Spec == Init /\ [][Next]_vars

SpecExpiry == InitExpiry /\ [][NextExpiry]_vars

-----------------------------------------------------------------------------
(* Properties                                                              *)

\* the collection the remote service returned to the last read
Returned == last.response.body.json

IsRead == last.kw \in {"get_cookie", "get_cookies"}
Answered == IsRead /\ last.mode = "ok"

Named(cookies, n) == {i \in 1..Len(cookies) : cookies[i]["name"] = n}

IsEmptyValue(v) ==
    \/ v.kind = "list" /\ v.items = <<>>
    \/ v.kind = "str" /\ v.text = ""

\* the calendar time dt stands for epoch second e
AtEpoch(dt, e) ==
    /\ dt.t = "datetime"
    /\ timestamp(dt, tz).d = e.d
    /\ timestamp(dt, tz).s = e.s

\* value is the record `cookie` in the shape return_type asks for
Reshaped(cookie, return_type, value) ==
    IF return_type = "dictionary"
    THEN /\ value.kind = "dict"
         /\ DOMAIN value.rec = DOMAIN cookie
         /\ \A k \in DOMAIN cookie :
               IF k = "expires" THEN AtEpoch(value.rec[k], cookie[k])
               ELSE value.rec[k] = cookie[k]
    ELSE /\ value.kind = "str"
         /\ value.text = cookie["name"] \o "=" \o cookie["value"]

\* C1: on every collection the remote service returns, get_cookie(n) returns the
\* first record named exactly n, reshaped per return_type, when one exists, and
\* fails with "Cookie with name n is not found." when none does; it never fails
\* while a matching record is present.
C1_GetCookieFirstMatch ==
    (last.kw = "get_cookie" /\ last.mode = "ok") =>
        LET n == last.args.cookie
            matches == Named(Returned, n)
        IN IF matches = {}
           THEN /\ last.raised.type = "ValueError"
                /\ last.raised.details = "Cookie with name " \o n \o " is not found."
           ELSE /\ ~IsRaised(last)
                /\ \E i \in matches :
                      /\ \A j \in matches : i <= j
                      /\ Reshaped(Returned[i], last.args.return_type, last.value)

\* C2: whenever the remote service returns an empty collection, get_cookies
\* returns an empty sequence, logs "No cookies found." at info level and raises
\* nothing.
C2_EmptyCollectionNoCookiesLogged ==
    (last.kw = "get_cookies" /\ last.mode = "ok" /\ Returned = <<>>) =>
        /\ ~IsRaised(last)
        /\ IsEmptyValue(last.value)
        /\ last.logs = <<[level |-> "info", msg |-> "No cookies found."]>>

\* a get_cookie(n) in dictionary mode right after a successful
\* add_cookie(name=n, value=v, url=u)
ReadsBackAdded ==
    /\ last.kw = "get_cookie"
    /\ last.args.return_type = "dictionary"
    /\ last.after.some
    /\ last.after.url # None
    /\ last.after.name = last.args.cookie

\* C3 as claimed: after add_cookie(name=n, value=v, url=u) succeeds, the record
\* an immediately following get_cookie(n) returns in dictionary mode has name n
\* and value v, whatever other cookies the remote context holds.
C3_AddThenGetReturnsAddedValue ==
    (ReadsBackAdded /\ ~IsRaised(last)) =>
        /\ last.value.rec["name"] = last.after.name
        /\ last.value.rec["value"] = last.after.value

\* C3 as amended: the same, when the added cookie is the only one of that name in
\* the remote context; then the read also succeeds whenever the remote call does.
C3_AddThenGetUniqueName ==
    (ReadsBackAdded /\ Cardinality(Named(jar, last.after.name)) = 1) =>
        /\ last.mode = "ok" => ~IsRaised(last)
        /\ ~IsRaised(last) =>
              /\ last.value.rec["name"] = last.after.name
              /\ last.value.rec["value"] = last.after.value

C3_Witness ==
    /\ ReadsBackAdded
    /\ ~IsRaised(last)
    /\ Len(jar) = 2
    /\ Cardinality(Named(jar, last.after.name)) = 1
    /\ jar[2]["name"] = last.after.name
    /\ last.value.rec["value"] = "2"

\* the entries name=value of the first n cookies, joined by "; "
RECURSIVE JoinedPairs(_, _)
JoinedPairs(cookies, n) ==
    IF n = 0 THEN ""
    ELSE (IF n = 1 THEN "" ELSE JoinedPairs(cookies, n - 1) \o "; ")
         \o cookies[n]["name"] \o "=" \o cookies[n]["value"]

\* C4: for every collection the remote service returns, get_cookies in string
\* mode returns the string of the entries name=value joined by "; " in the
\* collection's order.
C4_StringModeJoinsPairs ==
    (last.kw = "get_cookies" /\ last.mode = "ok" /\ last.args.return_type = "string") =>
        /\ ~IsRaised(last)
        /\ last.value.kind = "str"
        /\ last.value.text = JoinedPairs(Returned, Len(Returned))

\* decimal strings and the integers they write
EpochInputs ==
    { [chars |-> <<"0">>, e |-> [d |-> 0, s |-> 0]],
      [chars |-> <<"-", "1">>, e |-> [d |-> -1, s |-> 86399]],
      [chars |-> <<"1", "8", "2", "2", "1", "3", "7", "6", "9", "5">>, e |-> [d |-> 21089, s |-> 48095]],
      [chars |-> <<"2", "5", "3", "4", "0", "2", "3", "0", "0", "7", "9", "9">>, e |-> [d |-> 2932896, s |-> 86399]],
      [chars |-> <<"1", "0", "0", "0", "0", "0", "0", "0", "0", "0", "0", "0", "0">>, e |-> [d |-> 11574074, s |-> 6400]],
      [chars |-> <<"2", "0", "2", "7", "0", "9", "2", "8">>, e |-> [d |-> 234, s |-> 53328]] }

\* C5: a cookie added with expires given as the decimal string of an integer e
\* and read back in dictionary mode carries an expires timestamp whose epoch
\* seconds equal e, for every integer e.
C5_EpochExpiryRoundTrip ==
    \A input \in EpochInputs :
        ( /\ Answered
          /\ last.args.return_type = "dictionary"
          /\ last.after.some
          /\ last.after.expires = StrExpires(input.chars) ) =>
            IF last.kw = "get_cookie"
            THEN last.args.cookie = last.after.name =>
                    /\ ~IsRaised(last)
                    /\ "expires" \in DOMAIN last.value.rec
                    /\ AtEpoch(last.value.rec["expires"], input.e)
            ELSE /\ ~IsRaised(last)
                 /\ \A i \in 1..Len(last.value.items) :
                       LET item == last.value.items[i]
                       IN item["name"] = last.after.name =>
                             /\ "expires" \in DOMAIN item
                             /\ AtEpoch(item["expires"], input.e)

Rpc(kw) ==
    CASE kw \in {"get_cookies", "get_cookie"} -> "GetCookies"
      [] kw = "add_cookie" -> "AddCookie"
      [] OTHER -> "DeleteAllCookies"

\* C6: a keyword call that reaches the remote call opens one channel handle,
\* issues exactly one request on it and releases the handle before it returns,
\* on every exit path; a call that does not reach it (add_cookie failing on its
\* expires argument) opens none; no handle stays open after any sequence of calls.
C6_OneRequestChannelReleased ==
    /\ openHandles = 0
    /\ last.kw # "none" =>
          \/ /\ last.events = <<"open", Rpc(last.kw), "close">>
             /\ Len(last.sent) = 1
          \/ /\ last.events = <<>>
             /\ last.sent = <<>>
             /\ last.kw = "add_cookie"
             /\ last.raised.type = "ValueError"

C6_Witness ==
    /\ last.kw = "get_cookie"
    /\ last.raised = JSONDecodeError
    /\ last.events = <<"open", "GetCookies", "close">>
    /\ openHandles = 0
    /\ jar # <<>>

Unscoped(args) == args.url = None /\ (args.domain = None \/ args.path = None)

\* C7: add_cookie with no url and without both domain and path still sends its
\* one AddCookie request; the error the remote service answers with is the
\* exception the caller gets, and the remote collection stays as it was.
C7_UnscopedAddReachesRemote ==
    [][ (last'.kw = "add_cookie" /\ Unscoped(last'.args)) =>
            /\ last'.events = <<"open", "AddCookie", "close">>
            /\ Len(last'.sent) = 1
            /\ last'.sent[1].json["name"] = last'.args.name
            /\ last'.sent[1].json["value"] = last'.args.value
            /\ "url" \notin DOMAIN last'.sent[1].json
            /\ last'.raised = (IF last'.mode = "ok" THEN RpcInvalidCookie ELSE RpcUnavailable)
            /\ jar' = jar ]_vars

C7_Witness ==
    /\ last.kw = "add_cookie"
    /\ Unscoped(last.args)
    /\ last.mode = "ok"
    /\ last.raised = RpcInvalidCookie
    /\ Len(last.sent) = 1
    /\ jar # <<>>

\* what the expires argument stands for: an integer, a date (its epoch seconds
\* when read as UTC), or neither
ExpectedExpiry(chars) ==
    CASE chars = <<"0">> -> [kind |-> "int", e |-> [d |-> 0, s |-> 0]]
      [] chars = <<"-", "1">> -> [kind |-> "int", e |-> [d |-> -1, s |-> 86399]]
      [] chars = <<"1", "8", "2", "2", "1", "3", "7", "6", "9", "5">> -> [kind |-> "int", e |-> [d |-> 21089, s |-> 48095]]
      [] chars = <<"2", "5", "3", "4", "0", "2", "3", "0", "0", "7", "9", "9">> -> [kind |-> "int", e |-> [d |-> 2932896, s |-> 86399]]
      [] chars = <<"1", "0", "0", "0", "0", "0", "0", "0", "0", "0", "0", "0", "0">> -> [kind |-> "int", e |-> [d |-> 11574074, s |-> 6400]]
      [] chars = <<"2", "0", "2", "7", "0", "9", "2", "8">> -> [kind |-> "int", e |-> [d |-> 234, s |-> 53328]]
      [] chars = <<" ", "4", "2">> -> [kind |-> "int", e |-> [d |-> 0, s |-> 42]]
      [] chars = <<"2", "0", "2", "7", "-", "0", "9", "-", "2", "8", " ", "1", "6", ":", "2", "1", ":", "3", "5">> -> [kind |-> "date", e |-> [d |-> 21089, s |-> 58895]]
      [] OTHER -> [kind |-> "neither", e |-> [d |-> 0, s |-> 0]]

\* C8: for every expires argument given to add_cookie the payload sent carries
\* integer epoch seconds: the integer the string parses to (also when it reads
\* as a date), else the date parser's epoch; a string that is neither makes
\* add_cookie fail with the date parser's error and no request is sent.
C8_ExpiresPayloadIsEpochInteger ==
    (last.kw = "add_cookie" /\ last.args.expires.t = "str") =>
        LET want == ExpectedExpiry(last.args.expires.chars)
        IN IF want.kind = "neither"
           THEN /\ last.raised = [type |-> "ValueError", details |-> "Invalid timestamp"]
                /\ last.sent = <<>>
           ELSE /\ Len(last.sent) = 1
                /\ last.sent[1].json["expires"] =
                      IntExpires(IF want.kind = "int" THEN want.e ELSE WAdd(want.e, 0 - tz))

\* C9: on one response of GetCookies, a record get_cookie(n) returns in
\* dictionary mode is, in what get_cookies returns in dictionary mode, the first
\* element named n; and when get_cookies returns an empty sequence, get_cookie(n)
\* fails with not-found for every n.
C9_GetCookieAgreesWithGetCookies ==
    LET remote == RemoteOf(jar, last.mode, last.response.log)
    IN /\ ( /\ last.kw = "get_cookie"
            /\ last.args.return_type = "dictionary"
            /\ ~IsRaised(last) ) =>
              LET all == get_cookies(NoChannel(0), "dictionary", remote, tz)
                  n == last.args.cookie
              IN /\ ~IsRaised(all)
                 /\ \E i \in 1..Len(all.value.items) :
                       /\ all.value.items[i] = last.value.rec
                       /\ all.value.items[i]["name"] = n
                       /\ \A j \in 1..(i - 1) : all.value.items[j]["name"] # n
       /\ ( /\ last.kw = "get_cookies"
            /\ last.args.return_type = "dictionary"
            /\ ~IsRaised(last)
            /\ last.value.items = <<>> ) =>
              \A n \in QueryNames :
                  LET one == get_cookie(NoChannel(0), n, "dictionary", remote, tz)
                  IN /\ one.raised.type = "ValueError"
                     /\ one.raised.details = "Cookie with name " \o n \o " is not found."

\* C10: no stale data.  Once delete_all_cookies or eat_all_cookies has succeeded
\* and until an add_cookie succeeds, a get_cookies the remote service answers
\* returns an empty sequence, a get_cookie(n) it answers fails with not-found,
\* and no read returns a record.
C10_NoStaleCookiesAfterDelete ==
    cleared =>
        /\ (last.kw = "get_cookies" /\ last.mode = "ok") =>
              ~IsRaised(last) /\ IsEmptyValue(last.value)
        /\ (last.kw = "get_cookie" /\ last.mode = "ok") =>
              /\ last.raised.type = "ValueError"
              /\ last.raised.details =
                    "Cookie with name " \o last.args.cookie \o " is not found."
        /\ IsRead => (last.value = NoValue \/ IsEmptyValue(last.value))

C10_Witness ==
    /\ cleared
    /\ last.kw = "get_cookie"
    /\ last.mode = "ok"
    /\ last.response.log # ""
    /\ last.raised.type = "ValueError"

====
